---- MODULE Spec2Model ----
(***************************************************************************)
(* Model of the JNI session bridge, jni/src/main/native/session.cc:        *)
(* allocate, delete, run, extend and deviceList, each as one atomic        *)
(* action.  A call leaves a record `last` of its arguments, the sequence   *)
(* of native/JNI primitives it invoked (with the status each returned),    *)
(* its return value and the error it raised; the caller takes the result   *)
(* before it calls again.                                                  *)
(***************************************************************************)
EXTENDS Integers, Sequences, FiniteSets, TLC

VARIABLES sessions, graph, last, threads, closed, discipline

vars == <<sessions, graph, last, threads, closed, discipline>>

\* The variables of the interleaved view of the calls.
conc == <<threads, closed, discipline>>

---------------------------------------------------------------------------
(* Bounds of the model.                                                    *)

MaxSessions == 1
MaxInputs == 1
MaxOutputs == 2
MaxTargets == 1
MaxMetaLen == 2
MaxDevices == 2
MaxNodes == 1
MaxThreads == 2

---------------------------------------------------------------------------
(* Values.                                                                 *)

\* Addresses at which the engine may place a TF_Session.
SessionIds == 1..MaxSessions

\* Native objects owned by collaborators, alive for the whole run.
GraphHandles == {11}
OpHandles == {21}
TensorHandles == {31}

\* Handles a caller may pass: the zero handle, a live one, one of another kind.
GraphArgs == {0, 11, 21}
SessionArgs == {0} \cup SessionIds
OpArgs == {0, 21}
TensorArgs == {0, 31}
IndexArgs == {0}

\* A Java reference to a byte array or string: null, or the bytes it holds.
NullArray == [isNull |-> TRUE, bytes |-> <<>>]
Bytes(b) == [isNull |-> FALSE, bytes |-> b]

ByteVals == {7, 200}
TargetArgs == {NullArray, Bytes(<<108>>)}
\* <<>> is the empty ConfigProto; <<255>> is no protobuf message.
ConfigArgs == {NullArray, Bytes(<<>>), Bytes(<<255>>)}
RunOptionArgs == {NullArray, Bytes(<<>>), Bytes(<<7>>)}

SeqsUpTo(S, n) == UNION {[1..k -> S] : k \in 0..n}

\* Status codes and errors.
StatusOK == "TF_OK"
EngineError == "EngineError"
ConfigParseError == "InvalidArgument: could not parse the config proto"
InternalSerializationError == "Internal: Could not serialize device string"
InvalidHandle == "InvalidHandle"
NoError == "none"
EngineStatuses == {StatusOK, EngineError}

\* One invocation of a native or JNI primitive: its name, the object it
\* acted on, the status it reported.
E(name, arg) == [ev |-> name, arg |-> arg, st |-> StatusOK]
ES(name, arg, status) == [ev |-> name, arg |-> arg, st |-> status]

Count(trace, name) == Cardinality({i \in DOMAIN trace : trace[i].ev = name})
CountOn(trace, name, arg) ==
  Cardinality({i \in DOMAIN trace : trace[i].ev = name /\ trace[i].arg = arg})
Called(trace, name) == \E i \in DOMAIN trace : trace[i].ev = name

\* Return values of the entry points.
RetVoid == [kind |-> "void", long |-> 0, bytes |-> <<>>, elems |-> <<>>]
RetNull == [kind |-> "null", long |-> 0, bytes |-> <<>>, elems |-> <<>>]
RetLong(n) == [kind |-> "long", long |-> n, bytes |-> <<>>, elems |-> <<>>]
RetBytes(b) == [kind |-> "bytes", long |-> 0, bytes |-> b, elems |-> <<>>]
RetArray(es) == [kind |-> "array", long |-> 0, bytes |-> <<>>, elems |-> es]

\* A slot of the session table: the native context at that address, if any.
\* freed: a context at that address has been deleted and none created since.
\* nodes: how many nodes of the graph the context holds.
NoSession ==
  [live |-> FALSE, freed |-> FALSE, extend_before_run |-> FALSE, nodes |-> 0]

---------------------------------------------------------------------------
(* utilities.h / exception.h (not part of the sources at hand).            *)

\* REQUIRE_HANDLE: a checked lookup; fails on zero, unknown or wrong kind.
RequireHandle(valid, h) == h # 0 /\ h \in valid

\* REQUIRE_HANDLES: every element of the array resolves.
RequireHandles(valid, handles) ==
  \A i \in DOMAIN handles : RequireHandle(valid, handles[i])

\* REQUIRE_OUTPUTS: every (operation handle, index) pair resolves.
RequireOutputs(valid, handles, indices) ==
  \A i \in DOMAIN handles : RequireHandle(valid, handles[i])

\* CHECK_STATUS: TRUE when the status is not ok, in which case the error is
\* raised and the entry point returns its sentinel.
CHECK_STATUS(status) == status # StatusOK

LiveSessions(ss) == {h \in SessionIds : ss[h].live}

\* What the engine was handed and what it produced in a run; NoRun when the
\* call issued no run.
NoRun == [run_options |-> NullArray, inputs |-> <<>>, input_values |-> <<>>,
          outputs |-> <<>>, targets |-> <<>>, want_metadata |-> FALSE,
          output_values |-> <<>>, metadata |-> <<>>]

\* The outcome of one call, before it is recorded.
Outcome(trace, ret, err, ss) ==
  [trace |-> trace, ret |-> ret, err |-> err, sessions |-> ss,
   store |-> <<>>, engine |-> NoRun, devices |-> <<>>]

---------------------------------------------------------------------------
(* The engine's primitives on contexts.                                    *)

\* TF_NewSession: a context at address addr, extend_before_run on, holding
\* no node of the graph yet.
TF_NewSession(ss, addr) ==
  [ss EXCEPT ![addr] = [live |-> TRUE, freed |-> FALSE,
                        extend_before_run |-> TRUE, nodes |-> 0]]

\* TF_DeleteSession: the context is freed.
TF_DeleteSession(ss, h) ==
  [ss EXCEPT ![h] = [live |-> FALSE, freed |-> TRUE,
                     extend_before_run |-> FALSE, nodes |-> 0]]

\* ExtendSession: on success the context holds every node of the graph.
ExtendSession(ss, h, status, graph_nodes) ==
  IF status = StatusOK THEN [ss EXCEPT ![h].nodes = graph_nodes] ELSE ss

\* The engine's run extends the context first when extend_before_run is on.
SessionRunExtends(ss, h, graph_nodes) ==
  IF h \in LiveSessions(ss) /\ ss[h].extend_before_run
  THEN [ss EXCEPT ![h].nodes = graph_nodes] ELSE ss

---------------------------------------------------------------------------
(* allocate                                                                *)

\* TF_SetConfig parses the bytes.
ParseFromArray(bytes) == \A i \in DOMAIN bytes : bytes[i] # 255

TF_SetConfig(bytes) == IF ParseFromArray(bytes) THEN StatusOK ELSE ConfigParseError

DisableExtendBeforeRun_skipped(ss, addr) == ss

\* session->extend_before_run = false
DisableExtendBeforeRun(ss, addr) ==
  [ss EXCEPT ![addr].extend_before_run = FALSE]

allocate_body(ss, graph_handle, target, config_proto, new_status, addr) ==
  LET t0 == <<E("TF_NewStatus", 0), E("TF_NewSessionOptions", 0)>>
      t1 == IF target.isNull THEN t0
            ELSE t0 \o <<E("GetStringUTFChars:target", 0), E("TF_SetTarget", 0)>>
      cfg_status == IF config_proto.isNull THEN StatusOK
                    ELSE TF_SetConfig(config_proto.bytes)
      t2 == IF config_proto.isNull THEN t1
            ELSE t1 \o <<E("GetByteArrayElements:config_proto", 0),
                         ES("TF_SetConfig", 0, cfg_status)>>
      t3 == t2 \o <<ES("TF_NewSession", graph_handle, new_status)>>
      created == TF_NewSession(ss, addr)
      t4 == t3 \o <<E("TF_DeleteSessionOptions", 0)>>
      t5 == IF target.isNull THEN t4
            ELSE t4 \o <<E("ReleaseStringUTFChars:target", 0)>>
      t6 == IF config_proto.isNull THEN t5
            ELSE t5 \o <<E("ReleaseByteArrayElements:config_proto", 0)>>
  IN  IF CHECK_STATUS(cfg_status)
      THEN Outcome(t2 \o <<E("TF_DeleteStatus", 0)>>, RetLong(0), cfg_status, ss)
      ELSE IF CHECK_STATUS(new_status)
      THEN Outcome(t3 \o <<E("TF_DeleteStatus", 0)>>, RetLong(0), new_status, ss)
      ELSE Outcome(t6 \o <<E("TF_DeleteStatus", 0)>>, RetLong(addr), NoError,
                   DisableExtendBeforeRun(created, addr))

allocate_unchecked(ss, graph_handle, target, config_proto, new_status, addr) ==
  allocate_body(ss, graph_handle, target, config_proto, new_status, addr)

allocate(ss, graph_handle, target, config_proto, new_status, addr) ==
  IF ~RequireHandle(GraphHandles, graph_handle)
  THEN Outcome(<<>>, RetLong(0), InvalidHandle, ss)
  ELSE allocate_body(ss, graph_handle, target, config_proto, new_status, addr)

---------------------------------------------------------------------------
(* delete                                                                  *)

delete_body(ss, handle, close_status, delete_status) ==
  LET t0 == <<E("TF_NewStatus", 0), ES("TF_CloseSession", handle, close_status)>>
  IN  IF CHECK_STATUS(close_status)
      THEN Outcome(t0 \o <<E("TF_DeleteStatus", 0)>>, RetVoid, close_status, ss)
      ELSE Outcome(t0 \o <<ES("TF_DeleteSession", handle, delete_status),
                           E("TF_DeleteStatus", 0)>>,
                   RetVoid,
                   IF CHECK_STATUS(delete_status) THEN delete_status ELSE NoError,
                   TF_DeleteSession(ss, handle))

delete(ss, handle, close_status, delete_status) ==
  IF ~RequireHandle(LiveSessions(ss), handle)
  THEN Outcome(<<>>, RetVoid, InvalidHandle, ss)
  ELSE delete_body(ss, handle, close_status, delete_status)

---------------------------------------------------------------------------
(* extend                                                                  *)

extend_body(ss, handle, extend_status, graph_nodes) ==
  Outcome(<<E("TF_NewStatus", 0), ES("ExtendSession", handle, extend_status),
            E("TF_DeleteStatus", 0)>>,
          RetVoid,
          IF CHECK_STATUS(extend_status) THEN extend_status ELSE NoError,
          ExtendSession(ss, handle, extend_status, graph_nodes))

extend(ss, handle, extend_status, graph_nodes) ==
  IF ~RequireHandle(LiveSessions(ss), handle)
  THEN Outcome(<<>>, RetVoid, InvalidHandle, ss)
  ELSE extend_body(ss, handle, extend_status, graph_nodes)

---------------------------------------------------------------------------
(* run                                                                     *)

RunResolved_skips_targets(a) ==
  /\ RequireHandles(TensorHandles, a.input_tensor_handles)
  /\ RequireOutputs(OpHandles, a.input_op_handles, a.input_op_indices)
  /\ RequireOutputs(OpHandles, a.output_op_handles, a.output_op_indices)

\* The four validation passes over the handle arrays of the arguments a.
RunResolved(a) ==
  /\ RequireHandles(TensorHandles, a.input_tensor_handles)
  /\ RequireOutputs(OpHandles, a.input_op_handles, a.input_op_indices)
  /\ RequireOutputs(OpHandles, a.output_op_handles, a.output_op_indices)
  /\ RequireHandles(OpHandles, a.target_op_handles)

\* The resolved endpoints handed to the engine.
Endpoints(handles, indices) ==
  [i \in DOMAIN handles |-> [oper |-> handles[i], index |-> indices[i]]]

HasRunOptions_nonnull(jrun_options) == ~jrun_options.isNull

\* The wrapper around the run options: none unless bytes are present.
HasRunOptions(jrun_options) ==
  ~jrun_options.isNull /\ Len(jrun_options.bytes) > 0

\* TF_SessionRun, as the bridge sees it: the engine's status, the tensor it
\* produced for each requested output, the metadata it wrote into the buffer
\* when one was supplied.
TF_SessionRun(outputs, want_metadata, eng) ==
  [status |-> eng.status,
   output_values |-> [i \in DOMAIN outputs |->
                        IF eng.status = StatusOK THEN eng.base + i ELSE 0],
   metadata |-> IF want_metadata /\ eng.status = StatusOK THEN eng.meta ELSE <<>>]

RunEngineCalls_retries(handle, status) ==
  <<E("TF_NewStatus", 0), ES("TF_SessionRun", handle, status)>>
  \o (IF status # StatusOK THEN <<ES("TF_SessionRun", handle, status)>> ELSE <<>>)

\* The one run issued against the engine, with a fresh status object.
RunEngineCalls(handle, status) ==
  <<E("TF_NewStatus", 0), ES("TF_SessionRun", handle, status)>>

RunFailed_unchecked(status) == FALSE

\* The status check after the engine run.
RunFailed(status) == CHECK_STATUS(status)

WriteOutputs_off_by_one(store, output_values, num_outputs) ==
  [i \in DOMAIN store |-> IF i < num_outputs THEN output_values[i] ELSE store[i]]

\* The write-back of the produced tensors into the caller's storage.
WriteOutputs(store, output_values, num_outputs) ==
  [i \in DOMAIN store |-> IF i <= num_outputs THEN output_values[i] ELSE store[i]]

NewByteArray(n) == [i \in 1..n |-> 0]
memcpy(dst, src, n) == [i \in DOMAIN dst |-> IF i <= n THEN src[i] ELSE dst[i]]

MetadataArray_short(data) == memcpy(NewByteArray(Len(data)), data, Len(data) - 1)

\* The returned copy of the metadata buffer.
MetadataArray(data) == memcpy(NewByteArray(Len(data)), data, Len(data))

\* Destructors of the scoped objects alive at the validation passes.
RunScratchRelease(want_run_metadata) ==
  (IF want_run_metadata THEN <<E("TF_DeleteBuffer:run_metadata", 0)>> ELSE <<>>)
  \o <<E("delete[]", 5), E("delete[]", 4), E("delete[]", 3), E("delete[]", 2),
       E("delete[]", 1)>>

RunScopedRelease_leaks_options(jrun_options, want_run_metadata) ==
  <<E("TF_DeleteStatus", 0)>> \o RunScratchRelease(want_run_metadata)

\* Destructors of the scoped objects alive after the engine run.
RunScopedRelease(jrun_options, want_run_metadata) ==
  <<E("TF_DeleteStatus", 0)>>
  \o (IF HasRunOptions(jrun_options)
      THEN <<E("TF_DeleteBuffer:run_options", 0)>> ELSE <<>>)
  \o RunScratchRelease(want_run_metadata)

\* The body of run after the context handle has resolved; a holds the
\* arguments other than the handle.
run_body(ss, handle, a, eng) ==
  LET num_outputs == Len(a.output_tensor_handles)
      t0 == <<E("new[]", 1), E("new[]", 2), E("new[]", 3), E("new[]", 4),
              E("new[]", 5)>>
            \o (IF a.want_run_metadata THEN <<E("TF_NewBuffer", 0)>> ELSE <<>>)
      inputs == Endpoints(a.input_op_handles, a.input_op_indices)
      outputs == Endpoints(a.output_op_handles, a.output_op_indices)
      t1 == IF HasRunOptions(a.jrun_options)
            THEN t0 \o <<E("GetByteArrayElements:jrun_options", 0),
                         E("TF_NewBufferFromString", 0)>>
            ELSE t0
      r == TF_SessionRun(outputs, a.want_run_metadata, eng)
      ran == SessionRunExtends(ss, handle, eng.graph_nodes)
      t2 == t1 \o RunEngineCalls(handle, r.status)
      request == [run_options |-> IF HasRunOptions(a.jrun_options)
                                  THEN a.jrun_options ELSE NullArray,
                  inputs |-> inputs, input_values |-> a.input_tensor_handles,
                  outputs |-> outputs, targets |-> a.target_op_handles,
                  want_metadata |-> a.want_run_metadata,
                  output_values |-> r.output_values, metadata |-> r.metadata]
      t3 == IF HasRunOptions(a.jrun_options)
            THEN t2 \o <<E("ReleaseByteArrayElements:jrun_options", 0)>>
            ELSE t2
      t4 == t3 \o <<E("GetLongArrayElements:output_tensor_handles", 0),
                    E("ReleaseLongArrayElements:output_tensor_handles", 0)>>
      t5 == IF a.want_run_metadata
            THEN t4 \o <<E("NewByteArray", 0),
                         E("GetByteArrayElements:return_array", 0),
                         E("ReleaseByteArrayElements:return_array", 0)>>
            ELSE t4
  IN  IF ~RunResolved(a)
      THEN [Outcome(t0 \o RunScratchRelease(a.want_run_metadata), RetNull,
                    InvalidHandle, ss)
              EXCEPT !.store = a.output_tensor_handles]
      ELSE IF RunFailed(r.status)
      THEN [Outcome(t2 \o RunScopedRelease(a.jrun_options, a.want_run_metadata),
                    RetNull, r.status, ran)
              EXCEPT !.store = a.output_tensor_handles, !.engine = request]
      ELSE [Outcome(t5 \o RunScopedRelease(a.jrun_options, a.want_run_metadata),
                    IF a.want_run_metadata
                    THEN RetBytes(MetadataArray(r.metadata)) ELSE RetNull,
                    NoError, ran)
              EXCEPT !.store = WriteOutputs(a.output_tensor_handles,
                                            r.output_values, num_outputs),
                     !.engine = request]

run_unchecked(ss, handle, a, eng) == run_body(ss, handle, a, eng)

run(ss, handle, a, eng) ==
  IF ~RequireHandle(LiveSessions(ss), handle)
  THEN [Outcome(<<>>, RetNull, InvalidHandle, ss)
          EXCEPT !.store = a.output_tensor_handles]
  ELSE run_body(ss, handle, a, eng)

---------------------------------------------------------------------------
(* deviceList                                                              *)

\* DeviceAttributes::SerializeToString of device d.
SerializeToString(d) == <<10, d>>

\* The loop over the instantiated devices: each descriptor is appended; the
\* first one that fails to serialize clears the list and ends the loop.
RECURSIVE SerializeDevices(_, _, _, _)
SerializeDevices(n, bad, i, acc) ==
  IF i > n THEN acc
  ELSE IF i \in bad
  THEN [status |-> InternalSerializationError,
        output |-> <<>>,
        trace |-> acc.trace
                  \o <<ES("SerializeToString", i, InternalSerializationError)>>]
  ELSE SerializeDevices(n, bad, i + 1,
         [status |-> acc.status,
          output |-> Append(acc.output, SerializeToString(i)),
          trace |-> acc.trace \o <<E("SerializeToString", i)>>])

ListDevicesWithSessionConfig_drops_status(add_status, n, bad) ==
  LET t0 == <<ES("AddDevices", 0, add_status)>>
            \o [d \in 1..n |-> E("Device:new", d)]
      r == SerializeDevices(n, bad, 1,
                            [status |-> StatusOK, output |-> <<>>, trace |-> t0])
  IN  [status |-> r.status, output |-> r.output,
       trace |-> r.trace \o [d \in 1..n |-> E("Device:delete", d)]]

ListDevicesWithSessionConfig_leaks_on_failure(add_status, n, bad) ==
  LET t0 == <<ES("AddDevices", 0, add_status)>>
            \o [d \in 1..n |-> E("Device:new", d)]
      r == SerializeDevices(n, bad, 1,
                            [status |-> add_status, output |-> <<>>, trace |-> t0])
  IN  [status |-> r.status, output |-> r.output,
       trace |-> IF r.status = StatusOK
                 THEN r.trace \o [d \in 1..n |-> E("Device:delete", d)]
                 ELSE r.trace]

\* DeviceFactory::AddDevices reports add_status having created devices 1..n;
\* the holder destroys them all when the function returns.
ListDevicesWithSessionConfig(add_status, n, bad) ==
  LET t0 == <<ES("AddDevices", 0, add_status)>>
            \o [d \in 1..n |-> E("Device:new", d)]
      r == SerializeDevices(n, bad, 1,
                            [status |-> add_status, output |-> <<>>, trace |-> t0])
  IN  [status |-> r.status, output |-> r.output,
       trace |-> r.trace \o [d \in 1..n |-> E("Device:delete", d)]]

ConfigRejected_ignored(bytes) == FALSE

\* The configuration bytes do not parse.
ConfigRejected(bytes) == ~ParseFromArray(bytes)

DeviceListFailed_unchecked(status) == FALSE

\* The status check after the enumeration.
DeviceListFailed(status) == CHECK_STATUS(status)

\* The returned array: one fresh byte array per descriptor, filled by memcpy.
DeviceArray(devices) ==
  [i \in DOMAIN devices |->
     memcpy(NewByteArray(Len(devices[i])), devices[i], Len(devices[i]))]

deviceList(ss, config_proto, add_status, n, bad) ==
  LET t0 == <<E("TF_NewStatus", 0)>>
      t1 == IF config_proto.isNull THEN t0
            ELSE t0 \o <<E("GetByteArrayElements:config_proto", 0),
                         ES("ParseFromArray", 0,
                            IF ParseFromArray(config_proto.bytes) THEN StatusOK
                            ELSE ConfigParseError)>>
      r == ListDevicesWithSessionConfig(add_status, n, bad)
      t2 == t1 \o r.trace
      t3 == t2 \o <<E("NewObjectArray", 0)>>
            \o [i \in DOMAIN r.output |-> E("SetObjectArrayElement", i)]
      t4 == IF config_proto.isNull THEN t3
            ELSE t3 \o <<E("ReleaseByteArrayElements:config_proto", 0)>>
  IN  IF ~config_proto.isNull /\ ConfigRejected(config_proto.bytes)
      THEN Outcome(t1 \o <<E("TF_DeleteStatus", 0)>>, RetNull, ConfigParseError, ss)
      ELSE IF DeviceListFailed(r.status)
      THEN [Outcome(t2 \o <<E("TF_DeleteStatus", 0)>>, RetNull, r.status, ss)
              EXCEPT !.devices = r.output]
      ELSE [Outcome(t4 \o <<E("TF_DeleteStatus", 0)>>,
                    RetArray(DeviceArray(r.output)), NoError, ss)
              EXCEPT !.devices = r.output]

---------------------------------------------------------------------------
(* The state machine.                                                      *)

Record(op, handle, args, out) ==
  [op |-> op, handle |-> handle, args |-> args, trace |-> out.trace,
   ret |-> out.ret, err |-> out.err, store |-> out.store,
   engine |-> out.engine, devices |-> out.devices]

\* No call is in flight and no result is waiting to be taken.
Idle == Record("none", 0, <<>>, Outcome(<<>>, RetVoid, NoError, <<>>))

ThreadIds == 1..MaxThreads

\* Where a caller thread is: idle, failed (an error raised, about to
\* return), or inside the engine primitive of an entry point on a handle.
Thread(pc, h) == [pc |-> pc, handle |-> h]

Init ==
  /\ sessions = [h \in SessionIds |-> NoSession]
  /\ graph = 0
  /\ last = Idle
  /\ threads = [t \in ThreadIds |-> Thread("idle", 0)]
  /\ closed = {}
  /\ discipline = [lifecycleDuringRun |-> FALSE, runDuringLifecycle |-> FALSE]

Allocate ==
  /\ last.op = "none"
  /\ \E g \in GraphArgs, target \in TargetArgs, config \in ConfigArgs,
        st \in EngineStatuses, addr \in SessionIds :
       /\ ~sessions[addr].live
       /\ LET out == allocate(sessions, g, target, config, st, addr)
          IN  /\ sessions' = out.sessions
              /\ last' = Record("allocate", g,
                                [target |-> target, config_proto |-> config], out)
              /\ UNCHANGED <<graph, conc>>

Delete ==
  /\ last.op = "none"
  /\ \E h \in SessionArgs, cst \in EngineStatuses, dst \in EngineStatuses :
       LET out == delete(sessions, h, cst, dst)
       IN  /\ sessions' = out.sessions
           /\ last' = Record("delete", h, <<>>, out)
           /\ UNCHANGED <<graph, conc>>

Extend ==
  /\ last.op = "none"
  /\ \E h \in SessionArgs, st \in EngineStatuses :
       LET out == extend(sessions, h, st, graph)
       IN  /\ sessions' = out.sessions
           /\ last' = Record("extend", h, <<>>, out)
           /\ UNCHANGED <<graph, conc>>

\* Addresses of the tensors the engine produces: base + position.
TensorBases == {40, 50}

\* The engine's part in a run: its status, the tensors it produces, the
\* metadata it writes.  It is consulted only by a run that reaches it.
\* graph_nodes: the nodes of the graph at the time of the run.
EngineRuns(consulted, want, m, graph_nodes) ==
  IF ~consulted
  THEN {[status |-> StatusOK, base |-> 40, meta |-> <<>>,
         graph_nodes |-> graph_nodes]}
  ELSE {[status |-> EngineError, base |-> 40, meta |-> <<>>,
         graph_nodes |-> graph_nodes]}
       \cup [status : {StatusOK},
             base : IF m > 0 THEN TensorBases ELSE {40},
             meta : IF want THEN SeqsUpTo(ByteVals, MaxMetaLen) ELSE {<<>>},
             graph_nodes : {graph_nodes}]

\* Values in the caller's output storage before the call.
OldRefs == {77}

\* The arguments are drawn as far as the call reads them: none but the
\* output storage when the context handle does not resolve (line 141), the
\* run options only when the handle arrays resolve (lines 154-159).
Run ==
  /\ last.op = "none"
  /\ \E h \in SessionArgs, m \in 0..MaxOutputs, old \in OldRefs :
     LET resolved == RequireHandle(LiveSessions(sessions), h)
     IN
     \E want \in (IF resolved THEN BOOLEAN ELSE {FALSE}),
        n \in (IF resolved THEN 0..MaxInputs ELSE {0}),
        k \in (IF resolved THEN 0..MaxTargets ELSE {0}) :
     \E itens \in [1..n -> TensorArgs], iops \in [1..n -> OpArgs],
        iidx \in [1..n -> IndexArgs],
        oops \in [1..m -> IF resolved THEN OpArgs ELSE OpHandles],
        oidx \in [1..m -> IndexArgs], targets \in [1..k -> OpArgs] :
       LET arrays == [jrun_options |-> NullArray,
                      input_tensor_handles |-> itens,
                      input_op_handles |-> iops,
                      input_op_indices |-> iidx,
                      output_op_handles |-> oops,
                      output_op_indices |-> oidx,
                      target_op_handles |-> targets,
                      want_run_metadata |-> want,
                      output_tensor_handles |-> [i \in 1..m |-> old]]
           reached == resolved /\ RunResolved(arrays)
       IN  \E opts \in (IF reached THEN RunOptionArgs ELSE {NullArray}) :
           \E eng \in EngineRuns(reached, want, m, graph) :
             LET a == [arrays EXCEPT !.jrun_options = opts]
                 out == run(sessions, h, a, eng)
             IN  /\ sessions' = out.sessions
                 /\ last' = Record("run", h, a, out)
                 /\ UNCHANGED <<graph, conc>>

DeviceList ==
  /\ last.op = "none"
  /\ \E config \in ConfigArgs, st \in EngineStatuses, n \in 0..MaxDevices :
     \E bad \in SUBSET (1..n) :
       LET out == deviceList(sessions, config, st, n, bad)
       IN  /\ sessions' = out.sessions
           /\ last' = Record("deviceList", 0, [config_proto |-> config], out)
           /\ UNCHANGED <<graph, conc>>

\* The caller adds a node to the graph, between calls of the bridge.
AddNode ==
  /\ last.op = "none"
  /\ graph < MaxNodes
  /\ graph' = graph + 1
  /\ UNCHANGED <<sessions, last, conc>>

\* The entry point has returned; the caller takes the result.
Return ==
  /\ last.op # "none"
  /\ last' = Idle
  /\ UNCHANGED <<sessions, graph, conc>>

Next == Allocate \/ Delete \/ Extend \/ Run \/ DeviceList \/ AddNode \/ Return

Spec == Init /\ [][Next]_vars

---------------------------------------------------------------------------
(* The calls as concurrent caller threads see them: an entry point resolves *)
(* its handle, then stays inside the engine primitive until it returns; no *)
(* step takes a lock.                                                      *)

LifecyclePcs == {"close", "delete", "extend"}

\* Some other thread is inside one of the primitives pcs on the handle h.
InFlight(t, pcs, h) ==
  \E u \in ThreadIds \ {t} : threads[u].pc \in pcs /\ threads[u].handle = h

RunHandleResolves_nonzero(ss, h) == h # 0

\* REQUIRE_HANDLE(session, TF_Session, handle, nullptr) of run.
RunHandleResolves(ss, h) == RequireHandle(LiveSessions(ss), h)

\* TF_CloseSession: the context is closed when the engine reports ok.
TF_CloseSession(cl, h, status) == IF status = StatusOK THEN cl \cup {h} ELSE cl

\* allocate, from entry to return.
ConcAllocate(t) ==
  /\ threads[t].pc = "idle"
  /\ \E g \in GraphArgs, st \in EngineStatuses, addr \in SessionIds :
       /\ ~sessions[addr].live
       /\ LET out == allocate(sessions, g, NullArray, NullArray, st, addr)
          IN  /\ sessions' = out.sessions
              /\ threads' = [threads EXCEPT
                               ![t] = Thread(IF out.err = NoError THEN "idle"
                                             ELSE "failed", 0)]
  /\ UNCHANGED <<graph, last, closed, discipline>>

\* run up to the call of TF_SessionRun.
RunBegin(t) ==
  /\ threads[t].pc = "idle"
  /\ \E h \in SessionArgs :
       IF RunHandleResolves(sessions, h)
       THEN /\ threads' = [threads EXCEPT ![t] = Thread("run", h)]
            /\ discipline' =
                 [discipline EXCEPT !.runDuringLifecycle =
                                      @ \/ InFlight(t, LifecyclePcs, h)]
       ELSE /\ threads' = [threads EXCEPT ![t] = Thread("failed", 0)]
            /\ UNCHANGED discipline
  /\ UNCHANGED <<sessions, graph, last, closed>>

\* TF_SessionRun returns and run completes.
RunEnd(t) ==
  /\ threads[t].pc = "run"
  /\ \E st \in EngineStatuses :
       threads' = [threads EXCEPT
                     ![t] = Thread(IF RunFailed(st) THEN "failed" ELSE "idle", 0)]
  /\ UNCHANGED <<sessions, graph, last, closed, discipline>>

\* delete up to the call of TF_CloseSession.
DeleteBegin(t) ==
  /\ threads[t].pc = "idle"
  /\ \E h \in SessionArgs :
       IF RequireHandle(LiveSessions(sessions), h)
       THEN /\ threads' = [threads EXCEPT ![t] = Thread("close", h)]
            /\ discipline' =
                 [discipline EXCEPT !.lifecycleDuringRun =
                                      @ \/ InFlight(t, {"run"}, h)]
       ELSE /\ threads' = [threads EXCEPT ![t] = Thread("failed", 0)]
            /\ UNCHANGED discipline
  /\ UNCHANGED <<sessions, graph, last, closed>>

\* TF_CloseSession returns; a status that is not ok ends the call.
CloseEnd(t) ==
  /\ threads[t].pc = "close"
  /\ \E st \in EngineStatuses :
       /\ closed' = TF_CloseSession(closed, threads[t].handle, st)
       /\ threads' = [threads EXCEPT
                        ![t] = IF CHECK_STATUS(st) THEN Thread("failed", 0)
                               ELSE Thread("delete", threads[t].handle)]
  /\ UNCHANGED <<sessions, graph, last, discipline>>

\* TF_DeleteSession and the return of delete.
DeleteEnd(t) ==
  /\ threads[t].pc = "delete"
  /\ sessions' = TF_DeleteSession(sessions, threads[t].handle)
  /\ closed' = closed \ {threads[t].handle}
  /\ \E st \in EngineStatuses :
       threads' = [threads EXCEPT
                     ![t] = Thread(IF CHECK_STATUS(st) THEN "failed" ELSE "idle", 0)]
  /\ UNCHANGED <<graph, last, discipline>>

\* extend up to the call of ExtendSession.
ExtendBegin(t) ==
  /\ threads[t].pc = "idle"
  /\ \E h \in SessionArgs :
       IF RequireHandle(LiveSessions(sessions), h)
       THEN /\ threads' = [threads EXCEPT ![t] = Thread("extend", h)]
            /\ discipline' =
                 [discipline EXCEPT !.lifecycleDuringRun =
                                      @ \/ InFlight(t, {"run"}, h)]
       ELSE /\ threads' = [threads EXCEPT ![t] = Thread("failed", 0)]
            /\ UNCHANGED discipline
  /\ UNCHANGED <<sessions, graph, last, closed>>

\* ExtendSession returns and extend completes.
ExtendEnd(t) ==
  /\ threads[t].pc = "extend"
  /\ \E st \in EngineStatuses :
       /\ sessions' = IF threads[t].handle \in LiveSessions(sessions)
                      THEN ExtendSession(sessions, threads[t].handle, st, graph)
                      ELSE sessions
       /\ threads' = [threads EXCEPT
                        ![t] = Thread(IF CHECK_STATUS(st) THEN "failed"
                                      ELSE "idle", 0)]
  /\ UNCHANGED <<graph, last, closed, discipline>>

\* The error is raised in the caller and the thread is free again.
ThreadReturn(t) ==
  /\ threads[t].pc = "failed"
  /\ threads' = [threads EXCEPT ![t] = Thread("idle", 0)]
  /\ UNCHANGED <<sessions, graph, last, closed, discipline>>

NextConc ==
  \E t \in ThreadIds :
    \/ ConcAllocate(t)
    \/ RunBegin(t)
    \/ RunEnd(t)
    \/ DeleteBegin(t)
    \/ CloseEnd(t)
    \/ DeleteEnd(t)
    \/ ExtendBegin(t)
    \/ ExtendEnd(t)
    \/ ThreadReturn(t)

SpecConc == Init /\ [][NextConc]_vars

---------------------------------------------------------------------------
(* Properties.                                                             *)

\* Position of the first invocation of a primitive in a trace, 0 if none.
FirstIndex(trace, name) ==
  IF Called(trace, name)
  THEN CHOOSE i \in DOMAIN trace :
         /\ trace[i].ev = name
         /\ \A j \in DOMAIN trace : trace[j].ev = name => i <= j
  ELSE 0

\* Some primitive invoked by the call reported a non-ok status.
SomeStatusNotOk(trace) == \E i \in DOMAIN trace : trace[i].st # StatusOK

\* The engine's primitives on contexts and devices.
EnginePrimitives ==
  {"TF_SetConfig", "TF_NewSession", "TF_CloseSession", "TF_DeleteSession",
   "TF_SessionRun", "ExtendSession", "AddDevices"}

NoEngineCall(trace) == \A i \in DOMAIN trace : trace[i].ev \notin EnginePrimitives

\* The value an entry point returns when it fails.
SentinelOf(op) ==
  CASE op = "allocate" -> RetLong(0)
    [] op = "run" -> RetNull
    [] op = "deviceList" -> RetNull
    [] OTHER -> RetVoid

\* A run call one of whose array elements does not resolve.
RunHasInvalidElement(call) ==
  /\ call.op = "run"
  /\ \/ ~RequireHandles(TensorHandles, call.args.input_tensor_handles)
     \/ ~RequireHandles(OpHandles, call.args.input_op_handles)
     \/ ~RequireHandles(OpHandles, call.args.output_op_handles)
     \/ ~RequireHandles(OpHandles, call.args.target_op_handles)

\* A run call that reached the engine, and the status the engine reported.
RunReachedEngine(call) == call.op = "run" /\ Called(call.trace, "TF_SessionRun")
RunStatus(call) == call.trace[FirstIndex(call.trace, "TF_SessionRun")].st

\* C1: a run call with an invalid element among its input tensor, input
\* operation, output operation or target operation handles never invokes
\* TF_SessionRun and returns null with InvalidHandle raised.
C1_ResolveBeforeAct ==
  RunHasInvalidElement(last) =>
    /\ ~Called(last.trace, "TF_SessionRun")
    /\ last.ret = RetNull
    /\ last.err = InvalidHandle

\* A run on a live context whose only invalid element is a target handle.
C1_Witness ==
  /\ last.op = "run"
  /\ last.handle \in LiveSessions(sessions)
  /\ Len(last.args.input_tensor_handles) = 1
  /\ RequireHandles(TensorHandles, last.args.input_tensor_handles)
  /\ RequireHandles(OpHandles, last.args.input_op_handles)
  /\ RequireHandles(OpHandles, last.args.output_op_handles)
  /\ last.args.target_op_handles = <<0>>
  /\ last.ret = RetNull
  /\ last.err = InvalidHandle

\* C2: in every delete on a valid context handle, TF_DeleteSession is invoked
\* after the TF_CloseSession attempt, whatever status the close reported.
C2_DeleteFollowsClose ==
  (last.op = "delete" /\ Called(last.trace, "TF_CloseSession")) =>
    /\ Called(last.trace, "TF_DeleteSession")
    /\ FirstIndex(last.trace, "TF_CloseSession")
         < FirstIndex(last.trace, "TF_DeleteSession")

\* C3: when the engine run reports a non-ok status, the caller's output
\* storage is as it was before the call at every index, the returned
\* metadata is null and the engine's error is raised.
C3_FailedRunPublishesNothing ==
  (RunReachedEngine(last) /\ RunStatus(last) # StatusOK) =>
    /\ last.store = last.args.output_tensor_handles
    /\ last.ret = RetNull
    /\ last.err = RunStatus(last)

\* A failed run that asked for two outputs and for metadata.
C3_Witness ==
  /\ RunReachedEngine(last)
  /\ RunStatus(last) = EngineError
  /\ Len(last.args.output_tensor_handles) = 2
  /\ last.args.want_run_metadata
  /\ last.store = <<77, 77>>

RunHasZeroElement(call) ==
  /\ call.op = "run"
  /\ \E a \in {call.args.input_tensor_handles, call.args.input_op_handles,
               call.args.output_op_handles, call.args.target_op_handles} :
       \E i \in DOMAIN a : a[i] = 0

\* C5: allocate, delete, run and extend given the zero handle fail with
\* InvalidHandle before any primitive is invoked, return the sentinel and
\* change nothing; a run given a zero handle in one of its arrays fails
\* the same way before any engine primitive is invoked.
C5_ZeroHandleFails ==
  [][/\ (/\ last.op = "none"
         /\ last'.op \in {"allocate", "delete", "run", "extend"}
         /\ last'.handle = 0)
        => (/\ last'.err = InvalidHandle
            /\ last'.trace = <<>>
            /\ last'.ret = SentinelOf(last'.op)
            /\ sessions' = sessions
            /\ last'.op = "run"
                 => last'.store = last'.args.output_tensor_handles)
     /\ (last.op = "none" /\ RunHasZeroElement(last'))
        => (/\ last'.err = InvalidHandle
            /\ NoEngineCall(last'.trace)
            /\ last'.ret = RetNull
            /\ sessions' = sessions
            /\ last'.store = last'.args.output_tensor_handles)]_vars

\* An allocate given the zero graph handle.
C5_Witness ==
  /\ last.op = "allocate"
  /\ last.handle = 0
  /\ last.err = InvalidHandle
  /\ last.ret = RetLong(0)

\* The call failed: a primitive reported a non-ok status, or an error was
\* raised.
CallFailed(call) ==
  call.op # "none" /\ (SomeStatusNotOk(call.trace) \/ call.err # NoError)

\* The sentinels as claimed: an empty list for deviceList.
ClaimedSentinelOf(op) ==
  IF op = "deviceList" THEN RetArray(<<>>) ELSE SentinelOf(op)

\* C6 as claimed: every failing call returns its sentinel (zero handle, null
\* buffer, empty list) with an error raised, and no call returns anything
\* else while an error is raised.
C6_SentinelWithError_Claimed ==
  CallFailed(last) => (last.ret = ClaimedSentinelOf(last.op) /\ last.err # NoError)

\* C6: every failing call returns its sentinel (zero handle for allocate,
\* null for run, null array for deviceList) with an error raised, and no
\* call returns anything else while an error is raised.
C6_SentinelWithError ==
  CallFailed(last) => (last.ret = SentinelOf(last.op) /\ last.err # NoError)

\* A deviceList whose instantiation failed after creating devices.
C6_Witness ==
  /\ last.op = "deviceList"
  /\ \E i \in DOMAIN last.trace :
       last.trace[i].ev = "AddDevices" /\ last.trace[i].st # StatusOK
  /\ Called(last.trace, "Device:new")
  /\ last.ret = RetNull
  /\ last.err = EngineError

\* The run succeeded.
RunSucceeded(call) ==
  RunReachedEngine(call) /\ RunStatus(call) = StatusOK

\* C7: a successful run returns null when metadata was not asked for, and
\* otherwise a byte array with the length and the contents of the bytes the
\* engine wrote into the metadata buffer.
C7_MetadataOptionality ==
  RunSucceeded(last) =>
    IF last.args.want_run_metadata
    THEN /\ last.ret.kind = "bytes"
         /\ Len(last.ret.bytes) = Len(last.engine.metadata)
         /\ \A i \in DOMAIN last.engine.metadata :
              last.ret.bytes[i] = last.engine.metadata[i]
    ELSE last.ret = RetNull

\* A successful run that returns two metadata bytes.
C7_Witness ==
  /\ RunSucceeded(last)
  /\ last.args.want_run_metadata
  /\ Len(last.engine.metadata) = MaxMetaLen
  /\ last.ret = RetBytes(last.engine.metadata)

\* A deviceList call given configuration bytes that do not parse.
MalformedConfig(call) ==
  /\ call.op = "deviceList"
  /\ ~call.args.config_proto.isNull
  /\ ~ParseFromArray(call.args.config_proto.bytes)

\* Devices the call created and did not destroy.
DevicesLeft(trace) ==
  {d \in 1..MaxDevices :
     CountOn(trace, "Device:new", d) > CountOn(trace, "Device:delete", d)}

\* C8: deviceList given configuration bytes that do not parse fails with
\* ConfigParseError without invoking AddDevices, returns no list, and
\* leaves no device instantiated.
C8_ParseFailurePrecedesDevices ==
  MalformedConfig(last) =>
    /\ last.err = ConfigParseError
    /\ ~Called(last.trace, "AddDevices")
    /\ ~Called(last.trace, "Device:new")
    /\ last.ret = RetNull
    /\ DevicesLeft(last.trace) = {}

\* A deviceList given malformed bytes, which got as far as parsing them.
C8_Witness ==
  /\ MalformedConfig(last)
  /\ Called(last.trace, "ParseFromArray")
  /\ last.err = ConfigParseError

\* Device instantiation failed, or a descriptor failed to serialize.
InstantiationFailed(call) ==
  \E i \in DOMAIN call.trace :
    call.trace[i].ev = "AddDevices" /\ call.trace[i].st # StatusOK
SerializationFailed(call) ==
  \E i \in DOMAIN call.trace :
    call.trace[i].ev = "SerializeToString" /\ call.trace[i].st # StatusOK
EnumerationFailed(call) ==
  call.op = "deviceList" /\ (InstantiationFailed(call) \/ SerializationFailed(call))

\* No descriptor reaches the caller.
NoDescriptorReturned(call) ==
  call.ret.elems = <<>> /\ ~Called(call.trace, "SetObjectArrayElement")

\* C9 as claimed: when instantiation fails or a descriptor fails to
\* serialize, the failure is reported, the enumeration's result list is
\* empty, and no descriptor is handed to the caller.
C9_NoPartialList_Claimed ==
  EnumerationFailed(last) =>
    /\ last.err # NoError
    /\ last.devices = <<>>
    /\ NoDescriptorReturned(last)

\* C9: when instantiation fails or a descriptor fails to serialize, the
\* failure is reported and the entry point returns null, so no descriptor is
\* handed to the caller; the enumeration's own list is empty after a
\* serialization failure, and after an instantiation failure alone it
\* holds the descriptors of the devices that were created.
C9_NoPartialList ==
  EnumerationFailed(last) =>
    /\ last.err # NoError
    /\ last.ret = RetNull
    /\ NoDescriptorReturned(last)
    /\ SerializationFailed(last) => last.devices = <<>>
    /\ ~SerializationFailed(last) =>
         Len(last.devices) = Count(last.trace, "Device:new")

\* Instantiation failed after creating two devices, both of which serialize.
C9_Witness ==
  /\ last.op = "deviceList"
  /\ InstantiationFailed(last)
  /\ ~SerializationFailed(last)
  /\ Count(last.trace, "Device:new") = 2
  /\ last.ret = RetNull
  /\ last.err = EngineError

\* C10: after a successful run with M outputs the caller's storage holds, at
\* each index, the tensor the engine produced for the output at that index,
\* and nothing else is written; a run with no outputs whose handles resolve
\* is issued and, when the engine reports ok, succeeds with nothing written.
C10_OutputsWrittenInOrder ==
  /\ RunSucceeded(last) =>
       /\ last.err = NoError
       /\ Len(last.store) = Len(last.args.output_tensor_handles)
       /\ Len(last.engine.output_values) = Len(last.args.output_tensor_handles)
       /\ \A i \in DOMAIN last.store : last.store[i] = last.engine.output_values[i]
       /\ \A i \in DOMAIN last.engine.outputs :
            last.engine.outputs[i].oper = last.args.output_op_handles[i]
  /\ (/\ last.op = "run"
      /\ last.err # InvalidHandle
      /\ Len(last.args.output_tensor_handles) = 0)
     => (RunReachedEngine(last) /\ last.store = <<>>)

\* A successful run with two outputs, the two produced tensors in order.
C10_Witness ==
  /\ RunSucceeded(last)
  /\ Len(last.args.output_tensor_handles) = 2
  /\ last.store = <<41, 42>>

\* The close step of a delete reported a non-ok status.
CloseFailed(call) ==
  /\ call.op = "delete"
  /\ \E i \in DOMAIN call.trace :
       call.trace[i].ev = "TF_CloseSession" /\ call.trace[i].st # StatusOK

\* C11: a delete whose close step alone reports a non-ok status raises no
\* error: the close error is swallowed and the call completes normally.
C11_CloseErrorSwallowed ==
  CloseFailed(last) => last.err = NoError

\* C12: an allocate that created the options object releases it exactly
\* once, on success, on a configuration parse failure and on a failure to
\* construct the context.
C12_OptionsReleasedOnce ==
  (last.op = "allocate" /\ Called(last.trace, "TF_NewSessionOptions")) =>
    /\ Count(last.trace, "TF_NewSessionOptions") = 1
    /\ Count(last.trace, "TF_DeleteSessionOptions") = 1

\* The resource acquired by acq on arg is released by rel, once and later.
ReleasedOnce(trace, acq, rel, arg) ==
  /\ CountOn(trace, acq, arg) = CountOn(trace, rel, arg)
  /\ CountOn(trace, acq, arg) <= 1
  /\ \A j \in DOMAIN trace :
       (trace[j].ev = rel /\ trace[j].arg = arg)
         => \E i \in 1..(j - 1) : trace[i].ev = acq /\ trace[i].arg = arg

\* C13: in a run, each of the five scratch arrays, the run-options wrapper,
\* the metadata buffer and the status object is released exactly once if it
\* was acquired, on the invalid-handle, failed-run and success exits alike.
C13_RunResourcesReleasedOnce ==
  last.op = "run" =>
    /\ \A k \in 1..5 : ReleasedOnce(last.trace, "new[]", "delete[]", k)
    /\ ReleasedOnce(last.trace, "TF_NewBuffer", "TF_DeleteBuffer:run_metadata", 0)
    /\ ReleasedOnce(last.trace, "TF_NewBufferFromString",
                    "TF_DeleteBuffer:run_options", 0)
    /\ ReleasedOnce(last.trace, "TF_NewStatus", "TF_DeleteStatus", 0)
    /\ last.trace # <<>> => \A k \in 1..5 : CountOn(last.trace, "new[]", k) = 1

\* A failed run that had acquired all eight resources.
C13_Witness ==
  /\ last.op = "run"
  /\ last.err = EngineError
  /\ Count(last.trace, "new[]") = 5
  /\ Called(last.trace, "TF_NewBuffer")
  /\ Called(last.trace, "TF_NewBufferFromString")
  /\ Called(last.trace, "TF_NewStatus")
  /\ Called(last.trace, "TF_DeleteBuffer:run_options")

\* The pinning primitives and the primitives that release the pin.
Pins ==
  {<<"GetStringUTFChars:target", "ReleaseStringUTFChars:target">>,
   <<"GetByteArrayElements:config_proto", "ReleaseByteArrayElements:config_proto">>,
   <<"GetByteArrayElements:jrun_options", "ReleaseByteArrayElements:jrun_options">>}

\* C19: every array or string pinned during a call (target and config in
\* allocate, run options in run, config in deviceList) is unpinned exactly
\* once before the call returns, on every exit path.
C19_PinsReleasedOnce ==
  last.op \in {"allocate", "run", "deviceList"} =>
    \A p \in Pins : ReleasedOnce(last.trace, p[1], p[2], 0)

\* C14: a run call on a live context whose handles all resolve invokes
\* TF_SessionRun exactly once, whether it reports ok or a non-ok status.
C14_ExactlyOneEngineRun ==
  [][(/\ last.op = "none"
      /\ last'.op = "run"
      /\ last'.handle \in LiveSessions(sessions)
      /\ ~RunHasInvalidElement(last'))
     => Count(last'.trace, "TF_SessionRun") = 1]_vars

\* A run that the engine failed, issued once.
C14_Witness ==
  /\ last.op = "run"
  /\ ~RunHasInvalidElement(last)
  /\ last.err = EngineError
  /\ Count(last.trace, "TF_SessionRun") = 1

\* C15: a deviceList call destroys every device it instantiated, once,
\* before it returns, on the success, instantiation-failure and
\* serialization-failure exits alike: no device it created is left alive.
C15_DevicesDestroyed ==
  last.op = "deviceList" =>
    /\ \A d \in 1..MaxDevices :
         ReleasedOnce(last.trace, "Device:new", "Device:delete", d)
    /\ DevicesLeft(last.trace) = {}

\* An enumeration that created two devices and failed to serialize one.
C15_Witness ==
  /\ last.op = "deviceList"
  /\ SerializationFailed(last)
  /\ Count(last.trace, "Device:new") = 2
  /\ Count(last.trace, "Device:delete") = 2

\* C16: a run that reaches the engine passes a null run-options buffer and
\* creates no wrapper when the run-options array is absent or empty, and
\* creates one wrapper and passes the bytes when its length is above zero.
C16_EmptyRunOptionsAreNone ==
  RunReachedEngine(last) =>
    IF last.args.jrun_options.isNull \/ Len(last.args.jrun_options.bytes) = 0
    THEN /\ ~Called(last.trace, "TF_NewBufferFromString")
         /\ ~Called(last.trace, "GetByteArrayElements:jrun_options")
         /\ last.engine.run_options = NullArray
    ELSE /\ Count(last.trace, "TF_NewBufferFromString") = 1
         /\ FirstIndex(last.trace, "TF_NewBufferFromString")
              < FirstIndex(last.trace, "TF_SessionRun")
         /\ last.engine.run_options = last.args.jrun_options

\* A run given an empty, non-null run-options array that reached the engine.
C16_Witness ==
  /\ RunReachedEngine(last)
  /\ last.args.jrun_options = Bytes(<<>>)
  /\ last.engine.run_options = NullArray

\* A call that returned the handle of a context it created.
AllocateSucceeded(call) ==
  call.op = "allocate" /\ call.err = NoError /\ call.ret.kind = "long"

\* C17: extension is explicit only.  A context returned by a successful
\* allocate has extend_before_run off, as has every live context; a run call
\* leaves the nodes held by every context as they were; and the nodes held by
\* a context that stays live change only in an extend call on its handle,
\* which invokes ExtendSession exactly once.
C17_ExtensionExplicitOnly ==
  [][/\ AllocateSucceeded(last') /\ last.op = "none"
          => ~sessions'[last'.ret.long].extend_before_run
     /\ \A h \in LiveSessions(sessions') : ~sessions'[h].extend_before_run
     /\ last'.op = "run" /\ last.op = "none" => sessions' = sessions
     /\ \A h \in LiveSessions(sessions) \cap LiveSessions(sessions') :
          sessions'[h].nodes # sessions[h].nodes
            => /\ last'.op = "extend"
               /\ last'.handle = h
               /\ Count(last'.trace, "ExtendSession") = 1
               /\ sessions'[h].nodes = graph
     /\ (last'.op = "extend" /\ last.op = "none"
           /\ last'.handle \in LiveSessions(sessions))
          => Count(last'.trace, "ExtendSession") = 1]_vars

\* A successful run on a context that holds fewer nodes than the graph has:
\* the graph grew after the context was created and the run did not extend.
C17_Witness ==
  /\ RunSucceeded(last)
  /\ sessions[last.handle].live
  /\ sessions[last.handle].nodes < graph

\* A thread is inside TF_SessionRun on a context that is closed or deleted.
RunOnDeadContext ==
  \E t \in ThreadIds :
    /\ threads[t].pc = "run"
    /\ (threads[t].handle \in closed \/ ~sessions[threads[t].handle].live)

====
